---- MODULE Spec2Model ----
(***************************************************************************)
(* Countdown timer application (src/timer.py): the TimerScreen countdown   *)
(* state machine, the ConfigScreen start request and the AppController     *)
(* that switches between the two windows.  Every Qt slot runs to           *)
(* completion on the single GUI thread, so each handler is one action.     *)
(***************************************************************************)
EXTENDS Integers, Sequences, FiniteSets, TLC

\* ------------------------------------------------------------------ bounds

\* QSpinBox.setRange(0, 60): the largest value a spin box holds.
SpinMax == 60

\* Largest value entered in the seconds spin box in the explored runs.
MaxSeconds == 1

\* Window placements are the values 0..MaxGeom.
MaxGeom == 1

\* Spin-box values explored (each within 0..SpinMax).  Hours stay at 0 in the
\* application runs, where a countdown of an hour needs 3600 timeouts;
\* FormatSpec covers the whole range of totals.
HoursInputs == {0}
MinutesInputs == {0, 1}
SecondsInputs == 0..MaxSeconds

\* Texts typed into the message field ("" = left empty).
Messages == {"", "Tea"}

Geometries == 0..MaxGeom

\* Geometry of a freshly constructed window (resize(320, 440), not yet moved).
DefaultGeometry == 0

\* Largest total a ConfigScreen can submit: 60 h + 60 min + 60 s.
FormatRange == SpinMax * 3600 + SpinMax * 60 + SpinMax

\* Button glyphs of pause_play_btn.
PlayGlyph == "play"
PauseGlyph == "pause"

VARIABLES
    pc,             \* "constructed" (before __main__ shows a screen), "running", "quit"
    timer_screen,   \* the TimerScreen object
    config_screen,  \* the ConfigScreen object
    settings,       \* QSettings value "geometry": <<>> when absent, <<g>> when saved
    last,           \* history: the handler that ran last, with its arguments
    run,            \* history: the countdown since the last start, while uninterrupted
    seconds_arg,    \* FormatSpec: the argument of _format_time
    formatted       \* FormatSpec: its result ("" before the call)

vars == <<pc, timer_screen, config_screen, settings, last, run, seconds_arg, formatted>>

\* ------------------------------------------------------------ _format_time

DigitChars == <<"0", "1", "2", "3", "4", "5", "6", "7", "8", "9">>

\* Decimal digits of a natural number, as Python's format type 'd' prints them.
RECURSIVE IntToStr(_)
IntToStr(n) ==
    IF n < 10 THEN DigitChars[n + 1]
    ELSE IntToStr(n \div 10) \o DigitChars[(n % 10) + 1]

\* The format spec "02d": zero-padded on the left to a width of at least 2.
RECURSIVE ZeroPad(_, _)
ZeroPad(str, width) ==
    IF Len(str) >= width THEN str ELSE ZeroPad("0" \o str, width)

Format02d(n) == ZeroPad(IntToStr(n), 2)

format_time_wrong_minutes(seconds) ==
    LET h == seconds \div 3600
        m == seconds \div 60
        s == seconds % 60
    IN  Format02d(h) \o ":" \o Format02d(m) \o ":" \o Format02d(s)

_format_time(seconds) ==
    LET h == seconds \div 3600
        m == (seconds % 3600) \div 60
        s == seconds % 60
    IN  Format02d(h) \o ":" \o Format02d(m) \o ":" \o Format02d(s)

\* ------------------------------------------------------------- TimerScreen

\* TimerScreen.__init__ and _init_ui: the object right after construction.
TimerScreenInit ==
    [ initial_duration |-> 0,
      remaining_time   |-> 0,
      is_paused        |-> TRUE,
      timer_active     |-> FALSE,
      time_label       |-> "00:00:00",
      message_label    |-> "Countdown",
      pause_play_btn   |-> PlayGlyph,
      visible          |-> FALSE,
      geometry         |-> DefaultGeometry ]

reset_timer_keeps_ticking(ts) ==
    [ ts EXCEPT !.remaining_time = ts.initial_duration,
                !.time_label     = _format_time(ts.initial_duration),
                !.pause_play_btn = PlayGlyph ]

reset_timer_forgets_stop(ts) ==
    [ ts EXCEPT !.remaining_time = ts.initial_duration,
                !.time_label     = _format_time(ts.initial_duration),
                !.is_paused      = TRUE,
                !.pause_play_btn = PlayGlyph ]

reset_timer(ts) ==
    [ ts EXCEPT !.timer_active   = FALSE,
                !.remaining_time = ts.initial_duration,
                !.time_label     = _format_time(ts.initial_duration),
                !.is_paused      = TRUE,
                !.pause_play_btn = PlayGlyph ]

toggle_pause_unguarded(ts) ==
    IF ~ts.is_paused
    THEN [ ts EXCEPT !.is_paused = TRUE, !.timer_active = FALSE,
                     !.pause_play_btn = PlayGlyph ]
    ELSE [ ts EXCEPT !.is_paused = FALSE, !.timer_active = TRUE,
                     !.pause_play_btn = PauseGlyph ]

toggle_pause(ts) ==
    IF ts.remaining_time <= 0 THEN ts
    ELSE IF ~ts.is_paused
         THEN [ ts EXCEPT !.is_paused = TRUE, !.timer_active = FALSE,
                          !.pause_play_btn = PlayGlyph ]
         ELSE [ ts EXCEPT !.is_paused = FALSE, !.timer_active = TRUE,
                          !.pause_play_btn = PauseGlyph ]

start_without_autostart(ts, duration, message) ==
    reset_timer([ ts EXCEPT !.initial_duration = duration,
                            !.message_label    = message ])

start_resets_first(ts, duration, message) ==
    [ toggle_pause(reset_timer(ts)) EXCEPT !.initial_duration = duration,
                                           !.message_label    = message ]

start(ts, duration, message) ==
    toggle_pause(reset_timer([ ts EXCEPT !.initial_duration = duration,
                                         !.message_label    = message ]))

update_time_never_expires(ts) ==
    IF ~ts.is_paused /\ ts.remaining_time > 0
    THEN [ ts EXCEPT !.remaining_time = ts.remaining_time - 1,
                     !.time_label     = _format_time(ts.remaining_time - 1) ]
    ELSE ts

update_time_forgets_pause(ts) ==
    IF ~ts.is_paused /\ ts.remaining_time > 0
    THEN LET left == ts.remaining_time - 1
             t1   == [ ts EXCEPT !.remaining_time = left,
                                 !.time_label     = _format_time(left) ]
         IN  IF left = 0
             THEN [ t1 EXCEPT !.timer_active = FALSE, !.pause_play_btn = PlayGlyph ]
             ELSE t1
    ELSE ts

_update_time(ts) ==
    IF ~ts.is_paused /\ ts.remaining_time > 0
    THEN LET left == ts.remaining_time - 1
             t1   == [ ts EXCEPT !.remaining_time = left,
                                 !.time_label     = _format_time(left) ]
         IN  IF left = 0
             THEN [ t1 EXCEPT !.timer_active = FALSE, !.is_paused = TRUE,
                              !.pause_play_btn = PlayGlyph ]
             ELSE t1
    ELSE ts

\* ----------------------------------------------------------- ConfigScreen

\* ConfigScreen after construction (BaseWindow.__init__: hidden, default size).
ConfigScreenInit == [ visible |-> FALSE, geometry |-> DefaultGeometry ]

\* msg_input.setPlaceholderText("").
PlaceholderText == ""

\* ----------------------------------------------------------- AppController

\* The objects an AppController method reads and writes.
App ==
    [ config_screen |-> config_screen,
      timer_screen  |-> timer_screen,
      settings      |-> settings ]

show_config_screen_pauses_timer(app) ==
    LET ts  == IF app.timer_screen.is_paused THEN app.timer_screen
               ELSE toggle_pause(app.timer_screen)
        cs  == app.config_screen
        cs1 == IF ts.visible
               THEN [ cs EXCEPT !.geometry = ts.geometry ]
               ELSE IF app.settings # <<>>
                    THEN [ cs EXCEPT !.geometry = app.settings[1] ]
                    ELSE cs
    IN  [ app EXCEPT !.timer_screen  = [ ts EXCEPT !.visible = FALSE ],
                     !.config_screen = [ cs1 EXCEPT !.visible = TRUE ] ]

show_config_screen(app) ==
    LET ts  == app.timer_screen
        cs  == app.config_screen
        cs1 == IF ts.visible
               THEN [ cs EXCEPT !.geometry = ts.geometry ]
               ELSE IF app.settings # <<>>
                    THEN [ cs EXCEPT !.geometry = app.settings[1] ]
                    ELSE cs
    IN  [ app EXCEPT !.timer_screen  = [ ts EXCEPT !.visible = FALSE ],
                     !.config_screen = [ cs1 EXCEPT !.visible = TRUE ] ]

show_timer_screen_keeps_config(app, duration, message) ==
    LET ts1 == [ app.timer_screen EXCEPT !.geometry = app.config_screen.geometry ]
        ts2 == start(ts1, duration, message)
    IN  [ app EXCEPT !.timer_screen = [ ts2 EXCEPT !.visible = TRUE ] ]

show_timer_screen_no_geometry(app, duration, message) ==
    LET ts2 == start(app.timer_screen, duration, message)
    IN  [ app EXCEPT !.config_screen = [ app.config_screen EXCEPT !.visible = FALSE ],
                     !.timer_screen  = [ ts2 EXCEPT !.visible = TRUE ] ]

show_timer_screen(app, duration, message) ==
    LET ts1 == [ app.timer_screen EXCEPT !.geometry = app.config_screen.geometry ]
        ts2 == start(ts1, duration, message)
    IN  [ app EXCEPT !.config_screen = [ app.config_screen EXCEPT !.visible = FALSE ],
                     !.timer_screen  = [ ts2 EXCEPT !.visible = TRUE ] ]

save_settings(app) ==
    IF app.config_screen.visible
    THEN [ app EXCEPT !.settings = << app.config_screen.geometry >> ]
    ELSE IF app.timer_screen.visible
         THEN [ app EXCEPT !.settings = << app.timer_screen.geometry >> ]
         ELSE app

\* ConfigScreen._on_start: start_timer_signal is connected to show_timer_screen.
TotalSeconds(hours, minutes, seconds) == hours * 3600 + minutes * 60 + seconds

MessageOf(text) == IF text # "" THEN text ELSE PlaceholderText

on_start_accepts_zero(app, hours, minutes, seconds, text) ==
    IF TotalSeconds(hours, minutes, seconds) >= 0
    THEN show_timer_screen(app, TotalSeconds(hours, minutes, seconds), MessageOf(text))
    ELSE app

_on_start(app, hours, minutes, seconds, text) ==
    IF TotalSeconds(hours, minutes, seconds) > 0
    THEN show_timer_screen(app, TotalSeconds(hours, minutes, seconds), MessageOf(text))
    ELSE app

\* ------------------------------------------------------------------ actions

NoRun == [ valid |-> FALSE, d |-> 0, k |-> 0 ]

\* The states of section 4.1 of the specification, read off a TimerScreen.
Running(ts) == ~ts.is_paused /\ ts.remaining_time > 0
Expired(ts) == ts.is_paused /\ ts.remaining_time = 0
Idle(ts)    == ts.is_paused /\ ts.remaining_time > 0
                            /\ ts.remaining_time = ts.initial_duration
Paused(ts)  == ts.is_paused /\ ts.remaining_time > 0

StateName(ts) ==
    IF Running(ts) THEN "Running"
    ELSE IF Expired(ts) THEN "Expired"
    ELSE IF Idle(ts) THEN "Idle"
    ELSE IF Paused(ts) THEN "Paused"
    ELSE "none"

\* History record of a handler call: its name, the total and the text it was
\* given (start requests only) and the timer's state when it was called.
Handler(name) ==
    [ op |-> name, total |-> 0, message |-> "", from |-> StateName(timer_screen) ]

SetApp(app) ==
    /\ config_screen' = app.config_screen
    /\ timer_screen'  = app.timer_screen
    /\ settings'      = app.settings

Init ==
    /\ pc = "constructed"
    /\ timer_screen = TimerScreenInit
    /\ config_screen = ConfigScreenInit
    /\ settings \in {<<>>} \cup { <<g>> : g \in Geometries }
    /\ last = Handler("none")
    /\ run = NoRun
    /\ seconds_arg = 0
    /\ formatted = ""

\* __main__: app_controller.show_config_screen(), then the event loop runs.
Main ==
    /\ pc = "constructed"
    /\ pc' = "running"
    /\ SetApp(show_config_screen(App))
    /\ last' = Handler("main")
    /\ UNCHANGED <<run, seconds_arg, formatted>>

\* start_btn.clicked -> ConfigScreen._on_start, with the spin boxes and the
\* message field holding what the user entered.
StartClicked ==
    /\ pc = "running"
    /\ config_screen.visible
    /\ \E hours \in HoursInputs, minutes \in MinutesInputs,
          seconds \in SecondsInputs, text \in Messages :
          LET total == TotalSeconds(hours, minutes, seconds) IN
          /\ SetApp(_on_start(App, hours, minutes, seconds, text))
          /\ last' = [ op |-> "on_start", total |-> total, message |-> text,
                       from |-> StateName(timer_screen) ]
          /\ run' = IF total > 0 THEN [ valid |-> TRUE, d |-> total, k |-> 0 ] ELSE run
    /\ UNCHANGED <<pc, seconds_arg, formatted>>

\* pause_play_btn.clicked -> TimerScreen.toggle_pause.
PauseClicked ==
    /\ pc = "running"
    /\ timer_screen.visible
    /\ timer_screen' = toggle_pause(timer_screen)
    /\ last' = Handler("toggle_pause")
    /\ run' = NoRun
    /\ UNCHANGED <<pc, config_screen, settings, seconds_arg, formatted>>

\* reset_btn.clicked -> TimerScreen.reset_timer.
ResetClicked ==
    /\ pc = "running"
    /\ timer_screen.visible
    /\ timer_screen' = reset_timer(timer_screen)
    /\ last' = Handler("reset_timer")
    /\ run' = NoRun
    /\ UNCHANGED <<pc, config_screen, settings, seconds_arg, formatted>>

\* settings_btn / edit_time_btn clicked -> back_to_config_signal ->
\* AppController.show_config_screen.
BackClicked ==
    /\ pc = "running"
    /\ timer_screen.visible
    /\ SetApp(show_config_screen(App))
    /\ last' = Handler("back")
    /\ UNCHANGED <<pc, run, seconds_arg, formatted>>

\* QTimer.timeout -> TimerScreen._update_time: fires only while the QTimer is
\* active, whichever window is shown.
Timeout ==
    /\ pc = "running"
    /\ timer_screen.timer_active
    /\ timer_screen' = _update_time(timer_screen)
    /\ last' = Handler("timeout")
    /\ run' = IF run.valid THEN [ run EXCEPT !.k = run.k + 1 ] ELSE run
    /\ UNCHANGED <<pc, config_screen, settings, seconds_arg, formatted>>

\* BaseWindow.mouseMoveEvent on the configuration window: the user drags it.
DragConfig ==
    /\ pc = "running"
    /\ config_screen.visible
    /\ \E g \in Geometries :
          /\ g # config_screen.geometry
          /\ config_screen' = [ config_screen EXCEPT !.geometry = g ]
    /\ last' = Handler("move")
    /\ UNCHANGED <<pc, timer_screen, settings, run, seconds_arg, formatted>>

\* BaseWindow.mouseMoveEvent on the timer window.
DragTimer ==
    /\ pc = "running"
    /\ timer_screen.visible
    /\ \E g \in Geometries :
          /\ g # timer_screen.geometry
          /\ timer_screen' = [ timer_screen EXCEPT !.geometry = g ]
    /\ last' = Handler("move")
    /\ UNCHANGED <<pc, config_screen, settings, run, seconds_arg, formatted>>

\* close_btn.clicked -> QApplication.quit -> aboutToQuit -> save_settings.
Quit ==
    /\ pc = "running"
    /\ pc' = "quit"
    /\ SetApp(save_settings(App))
    /\ last' = Handler("quit")
    /\ UNCHANGED <<run, seconds_arg, formatted>>

Next ==
    \/ Main
    \/ StartClicked
    \/ PauseClicked
    \/ ResetClicked
    \/ BackClicked
    \/ Timeout
    \/ DragConfig
    \/ DragTimer
    \/ Quit

Spec == Init /\ [][Next]_vars

\* -------------------------------------------------- _format_time on its own

FormatInit ==
    /\ pc = "constructed"
    /\ timer_screen = TimerScreenInit
    /\ config_screen = ConfigScreenInit
    /\ settings = <<>>
    /\ last = Handler("none")
    /\ run = NoRun
    /\ seconds_arg \in 0..FormatRange
    /\ formatted = ""

FormatCall ==
    /\ formatted = ""
    /\ formatted' = _format_time(seconds_arg)
    /\ UNCHANGED <<pc, timer_screen, config_screen, settings, last, run, seconds_arg>>

FormatNext == FormatCall

FormatSpec == FormatInit /\ [][FormatNext]_vars

\* ------------------------------------------------------------------ claims

\* The durations a start request can carry in the explored runs.
Durations ==
    { TotalSeconds(h, m, s) : h \in HoursInputs, m \in MinutesInputs,
                              s \in SecondsInputs } \ {0}

\* C1: start(d, m) with d > 0, from any timer state, ends with
\* initial_duration = d, remaining = d and the timer Running with the
\* periodic tick scheduled: both for start applied to every reachable timer
\* state and for every start request the application has just served.
C1_StartAlwaysResets ==
    /\ \A d \in Durations, m \in Messages :
          LET t == start(timer_screen, d, m) IN
          /\ t.initial_duration = d
          /\ t.remaining_time = d
          /\ ~t.is_paused
          /\ t.timer_active
    /\ (last.op = "on_start" /\ last.total > 0) =>
          /\ timer_screen.initial_duration = last.total
          /\ timer_screen.remaining_time = last.total
          /\ ~timer_screen.is_paused
          /\ timer_screen.timer_active

\* A start request served while the previous countdown was paused part-way.
C1_Witness ==
    /\ last.op = "on_start"
    /\ last.total > 0
    /\ last.from = "Paused"
    /\ Running(timer_screen)

\* C2: a start request whose total is <= 0 changes nothing: the timer's
\* fields (initial_duration, remaining, paused flag, tick, labels), both
\* windows' visibility and geometry, and the saved settings stay as they were.
C2_ZeroStartIsNoOp ==
    [][ (last'.op = "on_start" /\ last'.total <= 0) =>
            UNCHANGED <<timer_screen, config_screen, settings, pc>> ]_vars

\* A rejected request made after an earlier countdown was configured.
C2_Witness ==
    /\ last.op = "on_start"
    /\ last.total = 0
    /\ last.message = "Tea"
    /\ timer_screen.initial_duration > 0
    /\ config_screen.visible

\* C3: k timeouts after start(d, m), with no pause or reset in between,
\* remaining = d - k; the timer is Running with the tick scheduled while
\* k < d, and Expired with the tick stopped at k = d, after which no further
\* decrement happens: _update_time leaves an Expired timer as it is.
C3_TicksCountDownToExpired ==
    /\ run.valid =>
          /\ run.k <= run.d
          /\ timer_screen.remaining_time = run.d - run.k
          /\ run.k < run.d => Running(timer_screen) /\ timer_screen.timer_active
          /\ run.k = run.d => Expired(timer_screen) /\ ~timer_screen.timer_active
    /\ Expired(timer_screen) => _update_time(timer_screen) = timer_screen

\* A countdown of more than one second that ran down to zero untouched.
C3_Witness ==
    /\ run.valid
    /\ run.d > 1
    /\ run.k = run.d
    /\ last.op = "timeout"
    /\ timer_screen.time_label = "00:00:00"

\* What a reset must establish, between the timer before and after it.
C4_ResetPost(before, after) ==
    /\ after.initial_duration = before.initial_duration
    /\ after.remaining_time = before.initial_duration
    /\ after.is_paused
    /\ ~after.timer_active
    /\ before.initial_duration > 0 => Idle(after)
    /\ before.initial_duration = 0 => Expired(after)

\* C4: reset leaves remaining = initial_duration, the timer paused and the
\* tick stopped (Idle when initial_duration > 0, Expired when it is 0), and
\* does not change initial_duration: for reset_timer applied to every
\* reachable timer state and for every reset the application performs.
C4_ResetRestoresInitial ==
    /\ [] C4_ResetPost(timer_screen, reset_timer(timer_screen))
    /\ [][ last'.op = "reset_timer" => C4_ResetPost(timer_screen, timer_screen') ]_vars

\* A reset pressed while the countdown was running.
C4_Witness ==
    /\ last.op = "reset_timer"
    /\ last.from = "Running"
    /\ Idle(timer_screen)
    /\ ~timer_screen.timer_active

\* What toggle_pause must establish, between the timer before and after it.
C5_TogglePost(before, after) ==
    IF before.remaining_time = 0
    THEN after = before
    ELSE /\ after.is_paused = ~before.is_paused
         /\ after.timer_active = ~after.is_paused
         /\ after.remaining_time = before.remaining_time
         /\ after.initial_duration = before.initial_duration

\* C5: toggle_pause changes nothing when remaining = 0; otherwise it flips
\* the paused flag (and with it the tick) and keeps remaining and
\* initial_duration; two calls in a row give back the state they started from.
C5_TogglePause ==
    /\ [] C5_TogglePost(timer_screen, toggle_pause(timer_screen))
    /\ [] (toggle_pause(toggle_pause(timer_screen)) = timer_screen)
    /\ [][ last'.op = "toggle_pause" => C5_TogglePost(timer_screen, timer_screen') ]_vars

\* The pause button pressed on an expired countdown.
C5_Witness ==
    /\ last.op = "toggle_pause"
    /\ last.from = "Expired"
    /\ timer_screen.initial_duration > 0
    /\ Expired(timer_screen)

\* C6: 0 <= remaining <= initial_duration in every reachable state.
C6_RemainingWithinInitial ==
    /\ 0 <= timer_screen.remaining_time
    /\ timer_screen.remaining_time <= timer_screen.initial_duration

\* A new, shorter countdown started over a longer one that had been running.
C6_Witness ==
    /\ last.op = "on_start"
    /\ last.from = "Running"
    /\ last.total = 1
    /\ timer_screen.remaining_time = 1

\* C7: the timer is never running with remaining = 0.
C7_NotRunningAtZero ==
    timer_screen.remaining_time = 0 => timer_screen.is_paused

\* The countdown has just expired.
C7_Witness ==
    /\ last.op = "timeout"
    /\ timer_screen.initial_duration > 0
    /\ timer_screen.remaining_time = 0

\* Reading a formatted string back: the value of a digit character, and of
\* the two-digit field that starts at position i.
DigitValue(c) == CHOOSE v \in 0..9 : DigitChars[v + 1] = c

IsDigit(c) == \E v \in 0..9 : DigitChars[v + 1] = c

TwoDigits(str, i) ==
    10 * DigitValue(SubSeq(str, i, i)) + DigitValue(SubSeq(str, i + 1, i + 1))

\* C8: for 0 <= s <= 60*3600 + 60*60 + 60, _format_time(s) is eight
\* characters HH:MM:SS of decimal digits with HH = s div 3600,
\* MM = (s mod 3600) div 60 <= 59 and SS = s mod 60 <= 59;
\* 0 -> "00:00:00", 59 -> "00:00:59", 3661 -> "01:01:01".
C8_FormatIsHHMMSS ==
    formatted # "" =>
        /\ Len(formatted) = 8
        /\ \A i \in {1, 2, 4, 5, 7, 8} : IsDigit(SubSeq(formatted, i, i))
        /\ SubSeq(formatted, 3, 3) = ":"
        /\ SubSeq(formatted, 6, 6) = ":"
        /\ TwoDigits(formatted, 1) = seconds_arg \div 3600
        /\ TwoDigits(formatted, 4) = (seconds_arg % 3600) \div 60
        /\ TwoDigits(formatted, 7) = seconds_arg % 60
        /\ TwoDigits(formatted, 4) <= 59
        /\ TwoDigits(formatted, 7) <= 59
        /\ seconds_arg = 0 => formatted = "00:00:00"
        /\ seconds_arg = 59 => formatted = "00:00:59"
        /\ seconds_arg = 3661 => formatted = "01:01:01"

\* The largest input, 60 h 60 min 60 s, formatted.
C8_Witness ==
    /\ seconds_arg = FormatRange
    /\ formatted = "61:01:00"

\* C9: once __main__ has shown the first screen, exactly one of the
\* configuration screen and the timer screen is visible.
C9_ExactlyOneScreen ==
    pc # "constructed" => (config_screen.visible # timer_screen.visible)

\* Back on the configuration screen after a countdown was started.
C9_Witness ==
    /\ last.op = "back"
    /\ config_screen.visible
    /\ ~timer_screen.visible
    /\ timer_screen.initial_duration > 0

\* A step that serves an accepted start request.
C10_SubmitPost ==
    (last'.op = "on_start" /\ last'.total > 0) =>
        /\ config_screen.visible
        /\ timer_screen'.visible
        /\ ~config_screen'.visible
        /\ timer_screen'.initial_duration = last'.total
        /\ timer_screen'.remaining_time = last'.total
        /\ timer_screen'.message_label = last'.message
        /\ timer_screen'.geometry = config_screen.geometry

\* A step that serves a back / edit request.
C10_BackPost ==
    last'.op = "back" =>
        /\ timer_screen.visible
        /\ config_screen'.visible
        /\ ~timer_screen'.visible
        /\ config_screen'.geometry = timer_screen.geometry

\* C10: an accepted start request made on the configuration screen shows the
\* timer screen instead, with the submitted duration and message and the
\* configuration screen's geometry; back shows the configuration screen
\* instead of the timer screen, with the timer screen's geometry.
C10_ScreenSwitchCarriesData ==
    [][ C10_SubmitPost /\ C10_BackPost ]_vars

\* The timer window was dragged and back pressed; the configuration window
\* then stands where the timer window stood, not where it had been saved.
C10_Witness ==
    /\ last.op = "back"
    /\ settings = <<>>
    /\ timer_screen.message_label = "Tea"
    /\ config_screen.geometry = timer_screen.geometry
    /\ config_screen.geometry # DefaultGeometry

\* A timeout step that changes remaining starts from a Running timer.
C11_TickOnlyWhileRunning ==
    (last'.op = "timeout" /\ timer_screen'.remaining_time # timer_screen.remaining_time)
        => Running(timer_screen)

\* C11: the QTimer is active exactly when the timer is Running (not paused
\* and remaining > 0), so it is never scheduled in Idle, Paused or Expired:
\* pause, reset and expiry each stop it, and a timeout changes remaining only
\* from a Running timer.
C11_TickScheduledIffRunning ==
    /\ [] (timer_screen.timer_active <=> Running(timer_screen))
    /\ [] ~reset_timer(timer_screen).timer_active
    /\ [] (Running(timer_screen) => ~toggle_pause(timer_screen).timer_active)
    /\ [][ C11_TickOnlyWhileRunning ]_vars

\* A running countdown was reset: the tick is cancelled and the timer Idle.
C11_Witness ==
    /\ last.op = "reset_timer"
    /\ last.from = "Running"
    /\ timer_screen.remaining_time = timer_screen.initial_duration
    /\ timer_screen.is_paused
    /\ ~timer_screen.timer_active
    /\ timer_screen.time_label = "00:01:01"

\* The TimerState of the specification's data model, with the scheduled tick.
TimerState(ts) ==
    << ts.initial_duration, ts.remaining_time, ts.is_paused, ts.timer_active >>

\* A step that changes the TimerState is a timeout or serves a start, reset
\* or pause request; a back step never does.
C12_StateChangers ==
    /\ last'.op = "back" => TimerState(timer_screen') = TimerState(timer_screen)
    /\ TimerState(timer_screen') # TimerState(timer_screen) =>
          last'.op \in {"timeout", "on_start", "reset_timer", "toggle_pause"}

\* C12: show_config_screen leaves initial_duration, remaining, the paused
\* flag and the scheduled tick as they are, so with the configuration screen
\* shown a Running countdown still has its tick scheduled and the next
\* timeout still counts it down; besides the tick, only a start, reset or
\* pause request changes the TimerState.
C12_BackLeavesTimerState ==
    /\ [] (TimerState(show_config_screen(App).timer_screen) = TimerState(timer_screen))
    /\ [] ((pc = "running" /\ config_screen.visible /\ Running(timer_screen)) =>
              /\ timer_screen.timer_active
              /\ ENABLED Timeout
              /\ _update_time(timer_screen).remaining_time
                    = timer_screen.remaining_time - 1)
    /\ [][ C12_StateChangers ]_vars

\* A countdown started, left for the configuration screen and never paused
\* or reset has run down to Expired while the configuration screen is shown.
C12_Witness ==
    /\ config_screen.visible
    /\ ~timer_screen.visible
    /\ last.op = "timeout"
    /\ run.valid
    /\ run.d > 0
    /\ run.k = run.d
    /\ Expired(timer_screen)

====
